---- MODULE Spec2Model ----
(***************************************************************************)
(* Changelog workflow: the entry validator (isValidChangelogEntry), the    *)
(* skip policy (handleSkipOption), the label collaborator (updatePRLabel), *)
(* the comment collaborator (postPRComment) and the file collaborator      *)
(* (createOrUpdateFile).  One behaviour is one invocation of one of these  *)
(* operations; `op` names the operation and `pc` its position.             *)
(*                                                                         *)
(* JavaScript strings are sequences of one-character strings, so that      *)
(* match, trim, toLowerCase and length are computed character by           *)
(* character.                                                              *)
(***************************************************************************)
EXTENDS Integers, Sequences, FiniteSets, TLC

VARIABLES
  op,                     \* the operation this run invokes
  pc,                     \* position inside the operation
  changelogEntry,         \* isValidChangelogEntry: the raw line
  totalEntries,           \* isValidChangelogEntry: number of entries in the section
  changesetCreationMode,  \* isValidChangelogEntry: "manual" or anything else
  validation,             \* isValidChangelogEntry: what the call produced
  entryMap,               \* handleSkipOption: the entry map (absent, or its keys)
  policy,                 \* handleSkipOption: Unchecked / Skip / Proceed / Rejected
  labelRequests,          \* handleSkipOption: the updateLabel calls made
  label,                  \* updatePRLabel: label argument
  addLabel,               \* updatePRLabel: addLabel argument
  prLabels,               \* the labels on the pull request (hosting side)
  labelsAtStart,          \* the labels on the pull request when the run began
  currentLabels,          \* updatePRLabel: what listLabelsOnIssue returned
  errorInput,             \* postPRComment: the error object
  prComments,             \* the comments on the pull request (hosting side)
  repoFile,               \* the changeset file on the branch: its sha, or NoSha
  sha,                    \* createOrUpdateFile: local variable sha
  calls,                  \* the hosting API calls made, in order
  result                  \* how the asynchronous operation ended

vars == <<op, pc, changelogEntry, totalEntries, changesetCreationMode, validation,
          entryMap, policy, labelRequests, label, addLabel, prLabels, labelsAtStart,
          currentLabels, errorInput, prComments, repoFile, sha, calls, result>>

validatorVars == <<changelogEntry, totalEntries, changesetCreationMode, validation>>
skipVars == <<entryMap, policy, labelRequests>>
labelVars == <<label, addLabel, prLabels, labelsAtStart, currentLabels>>
commentVars == <<errorInput, prComments>>
fileVars == <<repoFile, sha>>

---------------------------------------------------------------------------
(* Bounds of the model *)

\* descriptions are drawn up to MAX_ENTRY_LENGTH + ExtraLen characters
ExtraLen == 2
\* totalEntries ranges over 1..MaxEntries
MaxEntries == 3

---------------------------------------------------------------------------
(* Strings *)

\* JavaScript's undefined, where a string is expected (no string has this shape)
Undefined == <<"undefined">>

\* JavaScript truthiness of a string-or-undefined value
Truthy(s) == s # Undefined /\ s # <<>>

UpperCaseLetters ==
  <<"A","B","C","D","E","F","G","H","I","J","K","L","M",
    "N","O","P","Q","R","S","T","U","V","W","X","Y","Z">>
LowerCaseLetters ==
  <<"a","b","c","d","e","f","g","h","i","j","k","l","m",
    "n","o","p","q","r","s","t","u","v","w","x","y","z">>

IsWhitespace(c) == c \in {" ", "\t"}
IsWordChar(c) ==
  \/ \E i \in 1..26 : c = UpperCaseLetters[i] \/ c = LowerCaseLetters[i]
  \/ c \in {"0","1","2","3","4","5","6","7","8","9","_"}

\* String.prototype.toLowerCase, one character
ToLowerChar(c) ==
  IF \E i \in 1..26 : c = UpperCaseLetters[i]
  THEN LowerCaseLetters[CHOOSE i \in 1..26 : c = UpperCaseLetters[i]]
  ELSE c

\* String.prototype.toLowerCase
ToLowerCase(s) == [i \in 1..Len(s) |-> ToLowerChar(s[i])]

\* index of the first character at or after i that is not whitespace (Len(s)+1 if none)
SkipWhitespace(s, i) ==
  IF \E j \in i..Len(s) : ~IsWhitespace(s[j])
  THEN CHOOSE j \in i..Len(s) :
         ~IsWhitespace(s[j]) /\ \A k \in i..(j-1) : IsWhitespace(s[k])
  ELSE Len(s) + 1

\* index of the first character at or after i that is not a word character
SkipWord(s, i) ==
  IF \E j \in i..Len(s) : ~IsWordChar(s[j])
  THEN CHOOSE j \in i..Len(s) :
         ~IsWordChar(s[j]) /\ \A k \in i..(j-1) : IsWordChar(s[k])
  ELSE Len(s) + 1

\* String.prototype.trim
Trim(s) ==
  IF \A i \in 1..Len(s) : IsWhitespace(s[i]) THEN <<>>
  ELSE LET first == SkipWhitespace(s, 1)
           last == CHOOSE j \in 1..Len(s) :
                     ~IsWhitespace(s[j]) /\ \A k \in (j+1)..Len(s) : IsWhitespace(s[k])
       IN SubSeq(s, first, last)

---------------------------------------------------------------------------
(* Configuration (config/constants.js) *)

skip == <<"s","k","i","p">>
feat == <<"f","e","a","t">>
fix == <<"f","i","x">>

\* maximum length of a trimmed description
MAX_ENTRY_LENGTH == 4

\* the closed taxonomy of lower-case prefixes; it includes "skip"
CHANGELOG_ENTRY_PREFIXES == <<feat, fix, skip>>

\* Array.prototype.includes
Includes(array, x) == \E i \in 1..Len(array) : array[i] = x

NoMatch == [matched |-> FALSE, marker |-> "undefined", prefix |-> Undefined, log |-> Undefined]

\* changelogEntry.match(ENTRY_FORMATTING_PATTERN_REGEX), the pattern being
\*   ^\s*(-)?\s*(\w+)\s*:\s*(.+)?$
\* The character classes of adjacent pieces are disjoint, so the greedy scan
\* is the only way the pattern can match.
Match(s) ==
  LET i0 == SkipWhitespace(s, 1)
      hasMarker == i0 <= Len(s) /\ s[i0] = "-"
      i1 == SkipWhitespace(s, IF hasMarker THEN i0 + 1 ELSE i0)
      i2 == SkipWord(s, i1)
      i3 == SkipWhitespace(s, i2)
      i4 == SkipWhitespace(s, i3 + 1)
  IN IF i2 > i1 /\ i3 <= Len(s) /\ s[i3] = ":"
     THEN [matched |-> TRUE,
           marker |-> IF hasMarker THEN "-" ELSE "undefined",
           prefix |-> SubSeq(s, i1, i2 - 1),
           log |-> IF i4 <= Len(s) THEN SubSeq(s, i4, Len(s)) ELSE Undefined]
     ELSE NoMatch

---------------------------------------------------------------------------
(* EntryValidator *)

Thrown(name) == [status |-> name, prefix |-> Undefined, trimmedLog |-> Undefined]
Returned(prefix, trimmedLog) == [status |-> "ok", prefix |-> prefix, trimmedLog |-> trimmedLog]
Pending == [status |-> "pending", prefix |-> Undefined, trimmedLog |-> Undefined]

\* ManualModeChecks comparing the prefix with "skip" without lower-casing it
ManualModeChecksCaseSensitive(marker, prefix) ==
  IF marker # "-" THEN "ChangelogEntryMissingHyphenError"
  ELSE IF prefix # skip THEN "InvalidPrefixForManualChangesetCreationError"
  ELSE "ok"

\* the manual-mode branch
ManualModeChecks(marker, prefix) ==
  IF marker # "-" THEN "ChangelogEntryMissingHyphenError"
  ELSE IF ToLowerCase(prefix) # skip THEN "InvalidPrefixForManualChangesetCreationError"
  ELSE "ok"

\* NormalModeChecks with the length compared by >= instead of >
NormalModeChecksOffByOne(marker, prefix, log, trimmedLog, total) ==
  IF marker # "-" THEN "ChangelogEntryMissingHyphenError"
  ELSE IF ~Includes(CHANGELOG_ENTRY_PREFIXES, ToLowerCase(prefix)) THEN "InvalidPrefixError"
  ELSE IF prefix = skip /\ total > 1 THEN "InvalidAdditionalPrefixWithSkipEntryOptionError"
  ELSE IF prefix # skip /\ ~Truthy(log) THEN "EmptyEntryDescriptionError"
  ELSE IF Len(trimmedLog) >= MAX_ENTRY_LENGTH THEN "EntryTooLongError"
  ELSE "ok"

\* the normal-mode branch
NormalModeChecks(marker, prefix, log, trimmedLog, total) ==
  IF marker # "-" THEN "ChangelogEntryMissingHyphenError"
  ELSE IF ~Includes(CHANGELOG_ENTRY_PREFIXES, ToLowerCase(prefix)) THEN "InvalidPrefixError"
  ELSE IF prefix = skip /\ total > 1 THEN "InvalidAdditionalPrefixWithSkipEntryOptionError"
  ELSE IF prefix # skip /\ ~Truthy(log) THEN "EmptyEntryDescriptionError"
  ELSE IF Len(trimmedLog) > MAX_ENTRY_LENGTH THEN "EntryTooLongError"
  ELSE "ok"

\* Destructure reading the groups of an absent match as undefined
DestructureLenient(m) == "ok"

\* const [, marker, prefix, log] = changelogEntry.match(...): destructuring
\* null raises a TypeError
Destructure(m) == IF m.matched THEN "ok" ELSE "TypeError"

isValidChangelogEntry(entry, total, mode) ==
  LET m == Match(entry)
      trimmedLog == IF Truthy(m.log) THEN Trim(m.log) ELSE <<>>
      verdict == IF mode = "manual"
                 THEN ManualModeChecks(m.marker, m.prefix)
                 ELSE NormalModeChecks(m.marker, m.prefix, m.log, trimmedLog, total)
  IN IF Destructure(m) # "ok" THEN Thrown(Destructure(m))
     ELSE IF verdict # "ok" THEN Thrown(verdict)
     ELSE Returned(m.prefix, trimmedLog)

---------------------------------------------------------------------------
(* Inputs of the validator *)

PrefixWords ==
  { skip, <<"S","k","i","p">>, <<"S","K","I","P">>, feat, <<"F","i","x">>,
    <<"b","o","g","u","s">> }

Text(n) == [i \in 1..n |-> "a"]

Descriptions ==
  {<<>>, <<"a"," ",":","b">>}
    \cup { Text(n) \o trail : n \in 1..(MAX_ENTRY_LENGTH + ExtraLen), trail \in {<<>>, <<" ">>} }

Lines ==
  { lead \o mk \o w \o gap \o sep \o d :
      lead \in {<<>>, <<" ">>}, mk \in {<<>>, <<"-">>, <<"-"," ">>},
      w \in PrefixWords \cup {<<>>}, gap \in {<<>>, <<" ">>},
      sep \in {<<":">>, <<":"," ">>, <<>>}, d \in Descriptions }

Modes == {"manual", "automatic"}

InitValidator ==
  /\ changelogEntry \in Lines
  /\ totalEntries \in 1..MaxEntries
  /\ changesetCreationMode \in Modes
  /\ validation = Pending

IdleValidator ==
  /\ changelogEntry = <<>>
  /\ totalEntries = 1
  /\ changesetCreationMode = "automatic"
  /\ validation = Pending

Validate ==
  /\ op = "isValidChangelogEntry" /\ pc = "start"
  /\ validation' = isValidChangelogEntry(changelogEntry, totalEntries, changesetCreationMode)
  /\ pc' = "done"
  /\ UNCHANGED <<op, changelogEntry, totalEntries, changesetCreationMode, skipVars,
                 labelVars, commentVars, fileVars, calls, result>>

---------------------------------------------------------------------------
(* Hosting API: labels of the pull request.  Label names are unique up to  *)
(* letter case on the hosting side.                                         *)

SKIP_LABEL == <<"s","k","i","p","-","c","h","a","n","g","e","l","o","g">>
SkipLabelCapitalised == <<"S","k","i","p","-","C","h","a","n","g","e","l","o","g">>
autocut == <<"a","u","t","o","c","u","t">>

LabelNames == {SKIP_LABEL, SkipLabelCapitalised, autocut}

SameLabel(a, b) == ToLowerCase(a) = ToLowerCase(b)

\* the label is on the pull request
OnPR(labels, l) == \E e \in labels : SameLabel(e, l)

LabelSets ==
  { S \in SUBSET LabelNames : \A a, b \in S : SameLabel(a, b) => a = b }

\* octokit.rest.issues.addLabels({labels: [l]}) when it succeeds
AddLabels(labels, l) == IF OnPR(labels, l) THEN labels ELSE labels \cup {l}

\* octokit.rest.issues.removeLabel({name: l}) when it succeeds
RemoveLabel(labels, l) == { e \in labels : ~SameLabel(e, l) }

LabelCall(api, l, ok) == [api |-> api, ok |-> ok, label |-> l]

---------------------------------------------------------------------------
(* updatePRLabel *)

\* currentLabels.some((element) => element.name === label.toLowerCase())
LabelExists(labels, l) == \E element \in labels : element = ToLowerCase(l)

\* which mutating call follows the listing: "addLabels", "removeLabel" or "none"
LabelAction(exists, add) ==
  IF add /\ ~exists THEN "addLabels"
  ELSE IF ~add /\ exists THEN "removeLabel"
  ELSE "none"

\* the run ends: updatePRLabel returns to (or throws into) its caller.  Called
\* from handleSkipOption, a return makes handleSkipOption return true (Skip) or
\* false (Proceed), and a throw propagates.
LabelDone(thrown) ==
  /\ pc' = "done"
  /\ result' = IF thrown # "none" THEN thrown
               ELSE IF op = "handleSkipOption"
                    THEN (IF policy = "Skip" THEN "true" ELSE "false")
                    ELSE "undefined"

\* await octokit.rest.issues.listLabelsOnIssue, then the branch on labelExists
UpdatePRLabelList ==
  /\ op \in {"updatePRLabel", "handleSkipOption"} /\ pc = "listLabelsOnIssue"
  /\ \E ok \in BOOLEAN :
       /\ calls' = Append(calls, LabelCall("listLabelsOnIssue", <<>>, ok))
       /\ IF ok
          THEN /\ currentLabels' = prLabels
               /\ LET next == LabelAction(LabelExists(prLabels, label), addLabel)
                  IN IF next = "none"
                     THEN LabelDone("none")
                     ELSE pc' = next /\ UNCHANGED result
          ELSE /\ LabelDone("UpdatePRLabelError")
               /\ UNCHANGED currentLabels
  /\ UNCHANGED <<op, validatorVars, skipVars, label, addLabel, prLabels, labelsAtStart,
                 commentVars, fileVars>>

\* await octokit.rest.issues.addLabels
UpdatePRLabelAdd ==
  /\ op \in {"updatePRLabel", "handleSkipOption"} /\ pc = "addLabels"
  /\ \E ok \in BOOLEAN :
       /\ calls' = Append(calls, LabelCall("addLabels", label, ok))
       /\ prLabels' = IF ok THEN AddLabels(prLabels, label) ELSE prLabels
       /\ LabelDone(IF ok THEN "none" ELSE "UpdatePRLabelError")
  /\ UNCHANGED <<op, validatorVars, skipVars, label, addLabel, labelsAtStart,
                 currentLabels, commentVars, fileVars>>

\* await octokit.rest.issues.removeLabel; the hosting side answers 404 when
\* the label is not on the pull request
UpdatePRLabelRemove ==
  /\ op \in {"updatePRLabel", "handleSkipOption"} /\ pc = "removeLabel"
  /\ \E ok \in {b \in BOOLEAN : b => OnPR(prLabels, label)} :
       /\ calls' = Append(calls, LabelCall("removeLabel", label, ok))
       /\ prLabels' = IF ok THEN RemoveLabel(prLabels, label) ELSE prLabels
       /\ LabelDone(IF ok THEN "none" ELSE "UpdatePRLabelError")
  /\ UNCHANGED <<op, validatorVars, skipVars, label, addLabel, labelsAtStart,
                 currentLabels, commentVars, fileVars>>

InitLabel ==
  /\ label \in LabelNames
  /\ addLabel \in BOOLEAN
  /\ prLabels \in LabelSets
  /\ labelsAtStart = prLabels
  /\ currentLabels = {}

IdleLabel ==
  /\ label = <<>>
  /\ addLabel = FALSE
  /\ prLabels = {}
  /\ labelsAtStart = {}
  /\ currentLabels = {}

---------------------------------------------------------------------------
(* SkipPolicy: handleSkipOption *)

EntryKeys == {skip, <<"S","k","i","p">>, feat, fix}

\* an entry map is absent (null/undefined) or an object, of which only the
\* keys matter
EntryMaps ==
  {[present |-> FALSE, keys |-> {}]} \cup { [present |-> TRUE, keys |-> K] : K \in SUBSET EntryKeys }

\* entryMap && Object.keys(entryMap).includes("skip")
HasSkipKey(map) == map.present /\ skip \in map.keys

\* SkipDecision without the check that "skip" is the only key
SkipDecisionNoExclusivity(map) ==
  IF HasSkipKey(map) THEN "Skip" ELSE "Proceed"

\* the branch handleSkipOption takes: "Rejected", "Skip" or "Proceed"
SkipDecision(map) ==
  IF HasSkipKey(map)
  THEN (IF Cardinality(map.keys) > 1 THEN "Rejected" ELSE "Skip")
  ELSE "Proceed"

\* HandleSkipOption asserting the label absent before it looks at the map
HandleSkipOptionLabelFirst ==
  /\ op = "handleSkipOption" /\ pc = "start"
  /\ policy' = SkipDecision(entryMap)
  /\ IF policy' = "Rejected"
     THEN /\ pc' = "done"
          /\ result' = "CategoryWithSkipOptionError"
          /\ label' = SKIP_LABEL
          /\ addLabel' = FALSE
          /\ labelRequests' = Append(labelRequests, [label |-> label', addLabel |-> addLabel'])
     ELSE /\ pc' = "listLabelsOnIssue"
          /\ label' = SKIP_LABEL
          /\ addLabel' = (policy' = "Skip")
          /\ labelRequests' = Append(labelRequests, [label |-> label', addLabel |-> addLabel'])
          /\ UNCHANGED result
  /\ UNCHANGED <<op, validatorVars, entryMap, prLabels, labelsAtStart, currentLabels,
                 commentVars, fileVars, calls>>

\* the synchronous head of handleSkipOption: it throws, or calls
\* updateLabel(octokit, owner, repo, prNumber, SKIP_LABEL, true | false)
HandleSkipOption ==
  /\ op = "handleSkipOption" /\ pc = "start"
  /\ policy' = SkipDecision(entryMap)
  /\ IF policy' = "Rejected"
     THEN /\ pc' = "done"
          /\ result' = "CategoryWithSkipOptionError"
          /\ UNCHANGED <<labelRequests, label, addLabel>>
     ELSE /\ pc' = "listLabelsOnIssue"
          /\ label' = SKIP_LABEL
          /\ addLabel' = (policy' = "Skip")
          /\ labelRequests' = Append(labelRequests, [label |-> label', addLabel |-> addLabel'])
          /\ UNCHANGED result
  /\ UNCHANGED <<op, validatorVars, entryMap, prLabels, labelsAtStart, currentLabels,
                 commentVars, fileVars, calls>>

InitSkip ==
  /\ entryMap \in EntryMaps
  /\ policy = "Unchecked"
  /\ labelRequests = <<>>

IdleSkip ==
  /\ entryMap = [present |-> FALSE, keys |-> {}]
  /\ policy = "Unchecked"
  /\ labelRequests = <<>>

---------------------------------------------------------------------------
(* Errors that carry the comment-worthy flag *)

ErrorObject(name, message, flag) ==
  [name |-> name, message |-> message, shouldResultInPRComment |-> flag]

GitHubAppSuspendedOrNotInstalledError ==
  ErrorObject("GitHubAppSuspendedOrNotInstalledError",
              "The app is suspended or not installed in your forked repository.", TRUE)

MissingGitHubAppDomainError ==
  ErrorObject("MissingGitHubAppDomainError",
              "The GITHUB_APP_URL_DOMAIN constant is not set.", FALSE)

MissingChangelogBridgeApiKeyError ==
  ErrorObject("MissingChangelogBridgeApiKeyError",
              "The CHANGELOG_PR_BRIDGE_API_KEY constant is not set.", FALSE)

\* the error objects postPRComment is run on: the three classes above, two
\* author-caused failures and one hosting failure
ErrorInputs ==
  { GitHubAppSuspendedOrNotInstalledError, MissingGitHubAppDomainError,
    MissingChangelogBridgeApiKeyError,
    ErrorObject("ChangelogEntryMissingHyphenError", "Changelog entries must begin with a hyphen.", TRUE),
    ErrorObject("CategoryWithSkipOptionError", "skip cannot be combined with other categories.", TRUE),
    ErrorObject("UpdatePRLabelError", "There was an error updating the label.", FALSE) }

---------------------------------------------------------------------------
(* getErrorComment, postPRComment *)

Null == [isNull |-> TRUE, text |-> ""]
Str(text) == [isNull |-> FALSE, text |-> text]

\* getErrorComment ignoring the flag
getErrorCommentAlways(e) == Str(e.name \o ": " \o e.message)

\* `${errorInput.name}: ${errorInput.message}` or null
getErrorComment(e) ==
  IF e.shouldResultInPRComment
  THEN Str(e.name \o ": " \o e.message)
  ELSE Null

\* if (comment): null and the empty string are falsy
CommentTruthy(comment) == ~comment.isNull /\ comment.text # ""

\* the synchronous head of postPRComment
PostPRComment ==
  /\ op = "postPRComment" /\ pc = "start"
  /\ IF CommentTruthy(getErrorComment(errorInput))
     THEN pc' = "createComment" /\ UNCHANGED result
     ELSE pc' = "done" /\ result' = "undefined"
  /\ UNCHANGED <<op, validatorVars, skipVars, labelVars, commentVars, fileVars, calls>>

\* await octokit.rest.issues.createComment inside try/catch: a failure is
\* logged and swallowed
PostPRCommentCreate ==
  /\ op = "postPRComment" /\ pc = "createComment"
  /\ \E ok \in BOOLEAN :
       LET body == getErrorComment(errorInput).text
       IN /\ calls' = Append(calls, [api |-> "createComment", ok |-> ok, body |-> body])
          /\ prComments' = IF ok THEN Append(prComments, body) ELSE prComments
  /\ pc' = "done"
  /\ result' = "undefined"
  /\ UNCHANGED <<op, validatorVars, skipVars, labelVars, errorInput, fileVars>>

InitComment ==
  /\ errorInput \in ErrorInputs
  /\ prComments = <<>>

IdleComment ==
  /\ errorInput = MissingGitHubAppDomainError
  /\ prComments = <<>>

---------------------------------------------------------------------------
(* createOrUpdateFile *)

\* sha is undefined
NoSha == "undefined"

Shas == {"sha1", "sha2"}

\* the sha of the file once a write has succeeded
NewSha == "sha3"

\* status of a failed read; "undefined" is an error without a status
FailureStatuses == {"403", "404", "500", "undefined"}

\* what octokit.rest.repos.getContent may answer: the file's sha when the
\* file exists, 404 when it does not, and any other failure at any time
ReadOutcomes(file) ==
  {[ok |-> TRUE, status |-> "200", sha |-> file] : x \in {y \in {1} : file # NoSha}}
    \cup {[ok |-> FALSE, status |-> st, sha |-> NoSha] :
            st \in {t \in FailureStatuses : t = "404" => file = NoSha}}

\* ReadFailure proceeding on every failed read
ReadFailureAlwaysProceed(status) == "proceed"

\* the catch block of the read: proceed on 404, otherwise GetGithubContentError
ReadFailure(status) == IF status = "404" THEN "proceed" ELSE "GetGithubContentError"

\* the catch block of the write
WriteFailure(s) == IF s = NoSha THEN "CreateChangesetFileError" ELSE "UpdateChangesetFileError"

\* await octokit.rest.repos.getContent inside the first try/catch
CreateOrUpdateFileRead ==
  /\ op = "createOrUpdateFile" /\ pc = "start"
  /\ \E r \in ReadOutcomes(repoFile) :
       /\ calls' = Append(calls, [api |-> "getContent", ok |-> r.ok, status |-> r.status,
                                  sha |-> r.sha])
       /\ IF r.ok
          THEN sha' = r.sha /\ pc' = "createOrUpdateFileContents" /\ UNCHANGED result
          ELSE IF ReadFailure(r.status) = "proceed"
          THEN pc' = "createOrUpdateFileContents" /\ UNCHANGED <<sha, result>>
          ELSE pc' = "done" /\ result' = ReadFailure(r.status) /\ UNCHANGED sha
  /\ UNCHANGED <<op, validatorVars, skipVars, labelVars, commentVars, repoFile>>

\* await octokit.rest.repos.createOrUpdateFileContents inside the second try/catch
CreateOrUpdateFileWrite ==
  /\ op = "createOrUpdateFile" /\ pc = "createOrUpdateFileContents"
  /\ \E ok \in BOOLEAN :
       /\ calls' = Append(calls, [api |-> "createOrUpdateFileContents", ok |-> ok,
                                  status |-> IF ok THEN "200" ELSE "undefined", sha |-> sha])
       /\ repoFile' = IF ok THEN NewSha ELSE repoFile
       /\ result' = IF ok THEN "undefined" ELSE WriteFailure(sha)
  /\ pc' = "done"
  /\ UNCHANGED <<op, validatorVars, skipVars, labelVars, commentVars, sha>>

InitFile ==
  /\ repoFile \in Shas \cup {NoSha}
  /\ sha = NoSha

IdleFile ==
  /\ repoFile = NoSha
  /\ sha = NoSha

---------------------------------------------------------------------------
(* One run of one operation *)

InitValidatorRun ==
  /\ op = "isValidChangelogEntry" /\ pc = "start"
  /\ calls = <<>> /\ result = "pending"
  /\ InitValidator /\ IdleSkip /\ IdleLabel /\ IdleComment /\ IdleFile

InitSkipRun ==
  /\ op = "handleSkipOption" /\ pc = "start"
  /\ calls = <<>> /\ result = "pending"
  /\ IdleValidator /\ InitSkip /\ IdleComment /\ IdleFile
  /\ label = <<>> /\ addLabel = FALSE /\ prLabels \in LabelSets
  /\ labelsAtStart = prLabels /\ currentLabels = {}

InitLabelRun ==
  /\ op = "updatePRLabel" /\ pc = "listLabelsOnIssue"
  /\ calls = <<>> /\ result = "pending"
  /\ IdleValidator /\ IdleSkip /\ InitLabel /\ IdleComment /\ IdleFile

InitCommentRun ==
  /\ op = "postPRComment" /\ pc = "start"
  /\ calls = <<>> /\ result = "pending"
  /\ IdleValidator /\ IdleSkip /\ IdleLabel /\ InitComment /\ IdleFile

InitFileRun ==
  /\ op = "createOrUpdateFile" /\ pc = "start"
  /\ calls = <<>> /\ result = "pending"
  /\ IdleValidator /\ IdleSkip /\ IdleLabel /\ IdleComment /\ InitFile

Init ==
  \/ InitValidatorRun
  \/ InitSkipRun
  \/ InitLabelRun
  \/ InitCommentRun
  \/ InitFileRun

Next ==
  \/ Validate
  \/ HandleSkipOption
  \/ UpdatePRLabelList
  \/ UpdatePRLabelAdd
  \/ UpdatePRLabelRemove
  \/ PostPRComment
  \/ PostPRCommentCreate
  \/ CreateOrUpdateFileRead
  \/ CreateOrUpdateFileWrite

Spec == Init /\ [][Next]_vars

\* the steps of a run of handleSkipOption
SkipNext ==
  \/ HandleSkipOption
  \/ UpdatePRLabelList
  \/ UpdatePRLabelAdd
  \/ UpdatePRLabelRemove

\* the runs of handleSkipOption; an awaited hosting call settles, and the
\* operation then resumes
SkipSpec == InitSkipRun /\ [][SkipNext]_vars /\ WF_vars(SkipNext)

---------------------------------------------------------------------------
(* Properties of the validator *)

ValidatorDone == op = "isValidChangelogEntry" /\ pc = "done"
Parsed == Match(changelogEntry)
NormalMode == changesetCreationMode # "manual"
Taxonomy == { CHANGELOG_ENTRY_PREFIXES[i] : i \in 1..Len(CHANGELOG_ENTRY_PREFIXES) }
DescriptionAbsentOrEmpty == Parsed.log = Undefined \/ Parsed.log = <<>>
TrimmedDescription == IF Parsed.log = Undefined THEN <<>> ELSE Trim(Parsed.log)

TypedValidationErrors ==
  { "ChangelogEntryMissingHyphenError", "InvalidPrefixError",
    "InvalidPrefixForManualChangesetCreationError",
    "InvalidAdditionalPrefixWithSkipEntryOptionError",
    "EmptyEntryDescriptionError", "EntryTooLongError" }

\* the five rules of normal mode, each TRUE when violated
MissingMarkerRule == Parsed.marker # "-"
InvalidPrefixRule == ToLowerCase(Parsed.prefix) \notin Taxonomy
SkipMustBeSoleEntryRule == Parsed.prefix = skip /\ totalEntries > 1
EmptyDescriptionRule == Parsed.prefix # skip /\ DescriptionAbsentOrEmpty
EntryTooLongRule == Len(TrimmedDescription) > MAX_ENTRY_LENGTH

\* C1: in normal mode a matching line fails with the error of the first
\* violated rule, in the order MissingMarker, InvalidPrefix,
\* SkipMustBeSoleEntry, EmptyDescription, EntryTooLong, and succeeds exactly
\* when no rule is violated; a trimmed description of MAX_ENTRY_LENGTH
\* characters passes the length rule and one of MAX_ENTRY_LENGTH + 1 fails it.
C1_FirstViolatedRuleWins ==
  (ValidatorDone /\ NormalMode /\ Parsed.matched) =>
    /\ (validation.status = "ChangelogEntryMissingHyphenError") <=> MissingMarkerRule
    /\ (validation.status = "InvalidPrefixError") <=>
         (~MissingMarkerRule /\ InvalidPrefixRule)
    /\ (validation.status = "InvalidAdditionalPrefixWithSkipEntryOptionError") <=>
         (~MissingMarkerRule /\ ~InvalidPrefixRule /\ SkipMustBeSoleEntryRule)
    /\ (validation.status = "EmptyEntryDescriptionError") <=>
         (~MissingMarkerRule /\ ~InvalidPrefixRule /\ ~SkipMustBeSoleEntryRule
            /\ EmptyDescriptionRule)
    /\ (validation.status = "EntryTooLongError") <=>
         (~MissingMarkerRule /\ ~InvalidPrefixRule /\ ~SkipMustBeSoleEntryRule
            /\ ~EmptyDescriptionRule /\ EntryTooLongRule)
    /\ (validation.status = "ok") <=>
         (~MissingMarkerRule /\ ~InvalidPrefixRule /\ ~SkipMustBeSoleEntryRule
            /\ ~EmptyDescriptionRule /\ ~EntryTooLongRule)
    /\ validation.status \in TypedValidationErrors \cup {"ok"}
    /\ (~MissingMarkerRule /\ ~InvalidPrefixRule /\ ~SkipMustBeSoleEntryRule
          /\ ~EmptyDescriptionRule) =>
         /\ Len(TrimmedDescription) = MAX_ENTRY_LENGTH => validation.status = "ok"
         /\ Len(TrimmedDescription) = MAX_ENTRY_LENGTH + 1 =>
              validation.status = "EntryTooLongError"

\* a description one character over the maximum, padded, is rejected as too long
C1_Witness ==
  /\ ValidatorDone /\ NormalMode /\ Parsed.matched
  /\ Len(TrimmedDescription) = MAX_ENTRY_LENGTH + 1
  /\ Len(Parsed.log) > MAX_ENTRY_LENGTH + 1
  /\ validation.status = "EntryTooLongError"

\* C2: whenever a line whose prefix lower-cases to "skip" validates, in
\* either mode, the description returned is the empty string.
C2_SkipReturnsEmptyDescription ==
  (ValidatorDone /\ Parsed.matched /\ ToLowerCase(Parsed.prefix) = skip
     /\ validation.status = "ok") =>
    validation.trimmedLog = <<>>

\* C3: in manual mode a matching line fails with MissingMarker when the
\* marker is not "-"; otherwise it succeeds iff the prefix is "skip" up to
\* letter case, and any other prefix fails with InvalidPrefixForManualMode;
\* totalEntries and the description do not enter the outcome.
C3_ManualModeOnlySkip ==
  (ValidatorDone /\ ~NormalMode /\ Parsed.matched) =>
    validation.status =
      IF Parsed.marker # "-" THEN "ChangelogEntryMissingHyphenError"
      ELSE IF ToLowerCase(Parsed.prefix) = skip THEN "ok"
      ELSE "InvalidPrefixForManualChangesetCreationError"

\* a taxonomy prefix other than skip, with a hyphen, is refused in manual mode
C3_Witness ==
  /\ ValidatorDone /\ ~NormalMode /\ Parsed.matched /\ Parsed.marker = "-"
  /\ ToLowerCase(Parsed.prefix) \in Taxonomy \ {skip}
  /\ validation.status = "InvalidPrefixForManualChangesetCreationError"

\* C5: in normal mode a line with a hyphen whose prefix is the skip category
\* up to letter case fails with SkipMustBeSoleEntry whenever totalEntries > 1.
C5_SkipMustBeSoleEntry ==
  (ValidatorDone /\ NormalMode /\ Parsed.matched /\ Parsed.marker = "-"
     /\ ToLowerCase(Parsed.prefix) = skip /\ totalEntries > 1) =>
    validation.status = "InvalidAdditionalPrefixWithSkipEntryOptionError"

---------------------------------------------------------------------------
(* Properties of the skip policy and of the label collaborator *)

SkipRun == op = "handleSkipOption"
SkipDone == SkipRun /\ pc = "done"
SkipIsSoleKey == entryMap.present /\ entryMap.keys = {skip}
SkipWithOthers == entryMap.present /\ skip \in entryMap.keys /\ entryMap.keys # {skip}
NoSkipKey == ~entryMap.present \/ skip \notin entryMap.keys
SomeCallFailed == \E i \in 1..Len(calls) : ~calls[i].ok
MutatingCalls == { i \in 1..Len(calls) : calls[i].api \in {"addLabels", "removeLabel"} }

\* C4 as stated: handleSkipOption returns true iff "skip" is the only key of
\* the entry map, fails with CategoryWithSkipOptionError when "skip" comes
\* with another key, and returns false for every map without the key "skip".
C4_SkipDecisionAsStated ==
  SkipDone =>
    /\ (result = "true") <=> SkipIsSoleKey
    /\ SkipWithOthers => result = "CategoryWithSkipOptionError"
    /\ NoSkipKey => result = "false"

\* C4 amended: the same, for the runs whose label request does not fail; a
\* failed label request ends the run with UpdatePRLabelError and no return
\* value.
C4_SkipDecision ==
  SkipDone =>
    /\ (result = "true") <=> (SkipIsSoleKey /\ ~SomeCallFailed)
    /\ SkipWithOthers => result = "CategoryWithSkipOptionError"
    /\ (result = "false") <=> (NoSkipKey /\ ~SomeCallFailed)
    /\ (~SkipWithOthers /\ SomeCallFailed) => result = "UpdatePRLabelError"
    /\ result = "CategoryWithSkipOptionError" => SkipWithOthers

\* an empty entry map proceeds: the run returns false
C4_Witness ==
  /\ SkipDone /\ entryMap.present /\ entryMap.keys = {}
  /\ result = "false"

SkipRequest == <<[label |-> SKIP_LABEL, addLabel |-> TRUE]>>
ProceedRequest == <<[label |-> SKIP_LABEL, addLabel |-> FALSE]>>

\* what holds of a run of handleSkipOption in every state
C8_StateInvariant ==
  SkipRun =>
    /\ policy \in {"Unchecked", "Skip", "Proceed", "Rejected"}
    /\ (policy = "Unchecked") <=> (pc = "start")
    /\ policy = "Unchecked" => labelRequests = <<>> /\ result = "pending"
    /\ policy = "Skip" => labelRequests = SkipRequest /\ result # "false"
    /\ policy = "Proceed" => labelRequests = ProceedRequest /\ result # "true"
    /\ policy = "Rejected" =>
         /\ labelRequests = <<>> /\ calls = <<>> /\ prLabels = labelsAtStart
         /\ pc = "done" /\ result = "CategoryWithSkipOptionError"
    /\ result = "true" => policy = "Skip"
    /\ result = "false" => policy = "Proceed"
    /\ SomeCallFailed => result \notin {"true", "false", "pending"}
    /\ (pc = "done" /\ policy \in {"Skip", "Proceed"} /\ ~SomeCallFailed) =>
         result = (IF policy = "Skip" THEN "true" ELSE "false")

\* what holds of every step of a run of handleSkipOption
C8_Step ==
  SkipRun =>
    /\ pc # "done"
    /\ policy' # policy => policy = "Unchecked"
    /\ labelRequests' # labelRequests => result = "pending" /\ result' = "pending"

\* C8: a run of handleSkipOption leaves Unchecked once, for Skip, Proceed or
\* Rejected, never changes state again and takes no step once it has ended;
\* Skip requests the skip label once with addLabel = true before returning
\* true, Proceed once with addLabel = false before returning false, Rejected
\* makes no label request and leaves the labels alone; a failed label request
\* propagates and the run returns neither true nor false.
C8_SkipStateMachine ==
  /\ [](C8_StateInvariant)
  /\ [][C8_Step]_vars
  /\ (SkipRun ~> (pc = "done" /\ policy \in {"Skip", "Proceed", "Rejected"}))

\* a Skip run whose label request failed
C8_Witness ==
  /\ SkipDone /\ policy = "Skip" /\ labelRequests = SkipRequest
  /\ SomeCallFailed /\ result = "UpdatePRLabelError"

\* C9: when updatePRLabel returns without error the label is on the pull
\* request iff addLabel is true, whatever the letter case of the label; it
\* makes at most one mutating call and none when the label is already in the
\* requested state; so the skip label is absent after handleSkipOption
\* returns false and present after it returns true.
C9_LabelStateAsserted ==
  /\ (op = "updatePRLabel" /\ pc = "done" /\ result = "undefined") =>
       /\ OnPR(prLabels, label) <=> addLabel
       /\ Cardinality(MutatingCalls) <= 1
       /\ (OnPR(labelsAtStart, label) <=> addLabel) => MutatingCalls = {}
  /\ (SkipDone /\ result = "false") => ~OnPR(prLabels, SKIP_LABEL)
  /\ (SkipDone /\ result = "true") => OnPR(prLabels, SKIP_LABEL)

---------------------------------------------------------------------------
(* Properties of the comment collaborator *)

CommentRun == op = "postPRComment"

\* C6: postPRComment makes exactly one createComment call, with the body
\* "<name>: <message>", for a failure whose comment-worthy flag is true and
\* none for a failure whose flag is false; it never raises, also when the
\* createComment call fails.
C6_CommentIffFlagged ==
  CommentRun =>
    /\ result \in {"pending", "undefined"}
    /\ pc = "done" =>
         /\ result = "undefined"
         /\ IF errorInput.shouldResultInPRComment
            THEN /\ Len(calls) = 1
                 /\ calls[1].api = "createComment"
                 /\ calls[1].body = errorInput.name \o ": " \o errorInput.message
                 /\ prComments = IF calls[1].ok THEN <<calls[1].body>> ELSE <<>>
            ELSE calls = <<>> /\ prComments = <<>>
    /\ errorInput \in {MissingChangelogBridgeApiKeyError, MissingGitHubAppDomainError} =>
         calls = <<>>

\* a flagged failure whose createComment call failed: the run still returns
C6_Witness ==
  /\ CommentRun /\ pc = "done" /\ errorInput.shouldResultInPRComment
  /\ Len(calls) = 1 /\ ~calls[1].ok
  /\ result = "undefined"

---------------------------------------------------------------------------
(* Properties of the file collaborator *)

FileRun == op = "createOrUpdateFile"
Reads == { i \in 1..Len(calls) : calls[i].api = "getContent" }
Writes == { i \in 1..Len(calls) : calls[i].api = "createOrUpdateFileContents" }

====
